---- MODULE Spec2Model ----
(***************************************************************************)
(* State store (state_management.py): a JSON document of entities and      *)
(* their numeric resources, mutated by batches of subtractive deltas,      *)
(* persisted by temp-file + rename with a backup taken first; and the      *)
(* STATE-DELTA text parser that produces the batches.                      *)
(*                                                                         *)
(* Python strings are sequences of one-character strings, so that          *)
(* str(level), lower(), startswith(), split() and int() are computed.      *)
(* JSON objects are functions; the keys the code writes as literals        *)
(* ("entities", "resources", "metadata", "version", "last_updated") are    *)
(* TLA+ strings, the keys that come from data (entity ids, resource        *)
(* names, level strings) are character sequences.                          *)
(***************************************************************************)
EXTENDS Integers, Sequences, FiniteSets, TLC

\* ---------------------------------------------------------------- bounds
MaxClock == 1      \* readings of datetime.now() beyond the first
MaxLines == 2      \* lines of the text handed to the parser

\* --------------------------------------------------------------- strings
E1 == <<"e", "1">>
E2 == <<"e", "2">>
KI == <<"k", "i">>
SPELL_SLOT == <<"s", "p", "e", "l", "l", "_", "s", "l", "o", "t">>
SPELL_SLOT_DOT == <<"s", "p", "e", "l", "l", "_", "s", "l", "o", "t", ".">>
SPELL_SLOTS == <<"s", "p", "e", "l", "l", "_", "s", "l", "o", "t", "s">>
SPELL_SLOT_X == <<"s", "p", "e", "l", "l", "_", "s", "l", "o", "t", ".", "x">>
DRY_RUN_MARK == <<"D", "R", "Y", "-", "R", "U", "N", ":", " ">>
WOULD_CREATE == <<"W", "o", "u", "l", "d", " ", "c", "r", "e", "a", "t", "e", " ", "e", "n", "t", "i", "t", "y", " ">>
ARROW == <<" ", "-", ">", " ">>
SUBTRACT == <<" ", "(", "s", "u", "b", "t", "r", "a", "c", "t", " ">>
COLON_SP == <<":", " ">>

Digits == <<"0", "1", "2", "3", "4", "5", "6", "7", "8", "9">>

\* str(n) for a non-negative int
RECURSIVE StrNat(_)
StrNat(n) ==
  IF n < 10 THEN <<Digits[n + 1]>>
  ELSE StrNat(n \div 10) \o <<Digits[(n % 10) + 1]>>

\* str(n) / f"{n}" for an int
Str(n) == IF n < 0 THEN <<"-">> \o StrNat(0 - n) ELSE StrNat(n)

\* s.startswith(p)
StartsWith(s, p) == Len(s) >= Len(p) /\ SubSeq(s, 1, Len(p)) = p

\* max(0, v)
NoClampAtZero(v) == v
Max0(v) == IF v > 0 THEN v ELSE 0

\* ------------------------------------------------------------ JSON values
EmptyMap == [k \in {} |-> 0]
Has(f, k) == k \in DOMAIN f
Put(f, k, v) == [x \in (DOMAIN f) \cup {k} |-> IF x = k THEN v ELSE f[x]]
\* d.get(k, dflt)
Get(f, k, dflt) == IF k \in DOMAIN f THEN f[k] ELSE dflt

\* A JSON value in an entity's place that is not an object (a number, a
\* string, null, a list).
NotADict == [nondict |-> TRUE]
IsDict(v) == ~Has(v, "nondict")

\* File contents.  A file holds a complete JSON document, bytes that are not
\* JSON, or the prefix of a document that a writer has not finished.
FileAbsent == [kind |-> "absent"]
FileGarbage == [kind |-> "garbage"]
FilePartial == [kind |-> "partial"]
FileJson(doc) == [kind |-> "json", doc |-> doc]

\* The document _load_state builds when the backing file is absent.
EmptyDocument(t) ==
  [entities |-> EmptyMap,
   resources |-> EmptyMap,
   metadata |-> [version |-> "1.0", last_updated |-> t]]

\* The entity apply_delta creates.
NewEntity == [resources |-> EmptyMap, metadata |-> EmptyMap]

\* ------------------------------------------------- apply_delta: the loop
\* The outcome of a piece of code: it raised, or it ran to its end.
Raised(e) == [raised |-> TRUE, err |-> e]
Done(updated, changes) == [raised |-> FALSE, updated |-> updated, changes |-> changes]

\* resource_type == "spell_slot" or resource_type.startswith("spell_slot.")
IsLeveled(rtype) == rtype = SPELL_SLOT \/ StartsWith(rtype, SPELL_SLOT_DOT)

\* The change notes of the leveled branch.
LeveledDryNote(d, current, new) ==
  DRY_RUN_MARK \o d.entity \o <<" ">> \o d.rtype \o <<".">> \o Str(d.level)
    \o COLON_SP \o Str(current) \o ARROW \o Str(new)
    \o SUBTRACT \o Str(d.amount) \o <<")">>
LeveledNote(d, current, new) ==
  d.entity \o <<" ">> \o d.rtype \o <<".">> \o Str(d.level)
    \o COLON_SP \o Str(current) \o ARROW \o Str(new)

\* A dry-run note that reports current - amount without the clamp.
SimpleDryNoteUnclamped(d, current, new) ==
  DRY_RUN_MARK \o d.entity \o <<" ">> \o d.rtype
    \o COLON_SP \o Str(current) \o ARROW \o Str(current - d.amount)
    \o SUBTRACT \o Str(d.amount) \o <<")">>

\* The change notes of the simple branch.
SimpleDryNote(d, current, new) ==
  DRY_RUN_MARK \o d.entity \o <<" ">> \o d.rtype
    \o COLON_SP \o Str(current) \o ARROW \o Str(new)
    \o SUBTRACT \o Str(d.amount) \o <<")">>
SimpleNote(d, current, new) ==
  d.entity \o <<" ">> \o d.rtype
    \o COLON_SP \o Str(current) \o ARROW \o Str(new)

\* Spell slots: entity["resources"]["spell_slots"][str(level)].
\* `entity` has a "resources" object.
ApplyLeveled(entity, changes, d, dry) ==
  LET res0     == entity.resources
      res      == IF Has(res0, SPELL_SLOTS) THEN res0
                  ELSE Put(res0, SPELL_SLOTS, EmptyMap)
      levelStr == Str(d.level)
      current  == Get(res[SPELL_SLOTS], levelStr, 0)
      new      == Max0(current - d.amount)
  IN  IF dry
      THEN [entity  |-> Put(entity, "resources", res),
            changes |-> Append(changes, LeveledDryNote(d, current, new))]
      ELSE [entity  |-> Put(entity, "resources",
                            Put(res, SPELL_SLOTS, Put(res[SPELL_SLOTS], levelStr, new))),
            changes |-> Append(changes, LeveledNote(d, current, new))]

\* Simple resources: entity["resources"][resource_type].
ApplySimple(entity, changes, d, dry) ==
  LET res     == entity.resources
      current == Get(res, d.rtype, 0)
      new     == Max0(current - d.amount)
  IN  IF dry
      THEN [entity  |-> entity,
            changes |-> Append(changes, SimpleDryNote(d, current, new))]
      ELSE [entity  |-> Put(entity, "resources", Put(res, d.rtype, new)),
            changes |-> Append(changes, SimpleNote(d, current, new))]

\* One iteration of the loop over deltas.items(), on the working copy.
ApplyEntry(updated, changes, d, dry) ==
  IF ~Has(updated, "entities") THEN Raised("KeyError")
  ELSE
    LET ents == updated.entities IN
    IF ~Has(ents, d.entity) /\ dry
    THEN Done(updated, Append(changes, DRY_RUN_MARK \o WOULD_CREATE \o d.entity))
    ELSE
      LET ents1   == IF Has(ents, d.entity) THEN ents ELSE Put(ents, d.entity, NewEntity)
          entity0 == ents1[d.entity]
      IN
      IF ~IsDict(entity0) THEN Raised("TypeError")
      ELSE
        LET entity == IF Has(entity0, "resources") THEN entity0
                      ELSE Put(entity0, "resources", EmptyMap)
            r == IF IsLeveled(d.rtype)
                 THEN ApplyLeveled(entity, changes, d, dry)
                 ELSE ApplySimple(entity, changes, d, dry)
        IN Done(Put(updated, "entities", Put(ents1, d.entity, r.entity)), r.changes)

\* for (entity_id, resource_type, level), amount in deltas.items(): ...
\* from entry i on; the first exception ends the loop.
RECURSIVE ApplyLoop(_, _, _, _, _)
ApplyLoop(updated, changes, deltas, i, dry) ==
  IF i > Len(deltas) THEN Done(updated, changes)
  ELSE LET r == ApplyEntry(updated, changes, deltas[i], dry)
       IN IF r.raised THEN r
          ELSE ApplyLoop(r.updated, r.changes, deltas, i + 1, dry)

\* ------------------------------------------------------------------ state
VARIABLES
  disk,       \* content of the backing file (self.state_file)
  tmp,        \* content of the temp file (state_file.with_suffix('.tmp'))
  backupDir,  \* whether backups/state/ exists
  backups,    \* backups/state/state.<timestamp>.json: timestamp -> content
  now,        \* the reading of datetime.now()
  state,      \* self.state
  pc,         \* where the store's one thread is
  call,       \* the running apply_delta: its arguments and locals
  pre,        \* disk, memory and backups as the running/last call found them
  ret,        \* what the last finished call returned or raised
  preview,    \* the dry run made just before this call with the same batch, if any
  seen,       \* what a reader of the backing file read during the call
  text,       \* the text handed to parse_state_delta
  parsed,     \* what parse_state_delta returned or raised
  query,      \* the last read-only call on the store and what it gave
  cache,      \* ServiceOrchestrator.cache
  svc,        \* the orchestrator's last finished call, and the call before it
  batch       \* the running batch_lookup_entities: its arguments, tasks and results

storeVars == <<disk, tmp, backupDir, backups, now, state, pc, call, pre, ret, preview, seen>>
parseVars == <<text, parsed, query, cache, svc, batch>>
vars == <<disk, tmp, backupDir, backups, now, state, pc, call, pre, ret, preview, seen,
          text, parsed, query, cache, svc, batch>>

NoState == [unconstructed |-> TRUE]
NoCall == [running |-> FALSE]
NoRet == [status |-> "none"]
NoRead == [kind |-> "unread"]
NoPre == [none |-> TRUE]
NoQuery == [op |-> "none"]
NoService == [op |-> "none"]
NoBatch == [running |-> FALSE]

\* ------------------------------------------------------------- the inputs
\* Documents the backing file may hold when the store is constructed.
DocFull ==
  [entities |-> (E1 :> [resources |-> (KI :> 5 @@ SPELL_SLOTS :> (<<"2">> :> 1)),
                        metadata |-> EmptyMap]
                 @@ E2 :> [resources |-> (KI :> (0 - 1)), metadata |-> EmptyMap]),
   resources |-> EmptyMap,
   metadata |-> [version |-> "1.0", last_updated |-> 0]]
\* metadata without a version; an entity without "resources"
DocNoVersion ==
  [entities |-> (E1 :> [metadata |-> EmptyMap]),
   resources |-> EmptyMap,
   metadata |-> EmptyMap]
\* no "metadata" at all
DocNoMetadata ==
  [entities |-> (E1 :> [resources |-> (KI :> 5), metadata |-> EmptyMap]),
   resources |-> EmptyMap]
\* an entity that is not an object
DocBadEntity ==
  [entities |-> (E1 :> NotADict),
   resources |-> EmptyMap,
   metadata |-> [version |-> "1.0", last_updated |-> 0]]
\* a valid document with one entity
DocOneEntity ==
  [entities |-> (E1 :> [resources |-> (KI :> 1)]),
   resources |-> EmptyMap,
   metadata |-> [version |-> "1.0", last_updated |-> 0]]
\* no "entities" at all
DocNoEntities ==
  [resources |-> EmptyMap,
   metadata |-> [version |-> "1.0", last_updated |-> 0]]

InitialFiles ==
  {FileAbsent, FileGarbage, FileJson(DocFull), FileJson(DocNoVersion),
   FileJson(DocNoMetadata), FileJson(DocBadEntity), FileJson(DocNoEntities),
   FileJson(DocOneEntity)}

\* One entry of a delta batch: (entity_id, resource_type, level) -> amount.
Delta(e, r, l, a) == [entity |-> e, rtype |-> r, level |-> l, amount |-> a]
DeltaKey(d) == <<d.entity, d.rtype, d.level>>

\* The batches handed to apply_delta.  A batch is a dict: its keys are
\* distinct, its order the insertion order.
Batches ==
  {<<Delta(E1, KI, 0, 3)>>,
   <<Delta(E1, SPELL_SLOT, 2, 1)>>,
   <<Delta(E1, SPELL_SLOT, 2, 1), Delta(E1, SPELL_SLOT_X, 2, 1)>>,
   <<Delta(E1, KI, 0, 3), Delta(E2, KI, 0, 10)>>,
   <<Delta(E2, KI, 0, 10), Delta(E2, SPELL_SLOT, 2, 1)>>}

\* ------------------------------------------------------------- _load_state
LoadState(file, t) ==
  IF file.kind = "absent" THEN [raised |-> FALSE, doc |-> EmptyDocument(t)]
  ELSE IF file.kind = "json" THEN [raised |-> FALSE, doc |-> file.doc]
  ELSE Raised("ValueError")

\* StateManager(state_file)
Construct ==
  /\ pc = "new"
  /\ \/ LET r == LoadState(disk, now)
        IN IF r.raised
           THEN /\ pc' = "load_failed"
                /\ UNCHANGED state
           ELSE /\ pc' = "idle"
                /\ state' = r.doc
     \/ \* the file exists and cannot be opened or read
        /\ disk.kind # "absent"
        /\ pc' = "load_failed"
        /\ UNCHANGED state
  /\ UNCHANGED <<disk, tmp, backupDir, backups, now, call, pre, ret, preview, seen>>
  /\ UNCHANGED parseVars

\* Time passes.
Tick ==
  /\ pc = "idle"
  /\ now < MaxClock
  /\ now' = now + 1
  /\ UNCHANGED <<disk, tmp, backupDir, backups, state, pc, call, pre, ret, preview, seen>>
  /\ UNCHANGED parseVars

\* ------------------------------------------------------------ apply_delta
Failure(e) == [status |-> "error", err |-> e, deltas |-> call.deltas, dry |-> FALSE]

\* self.state once the loop has run: the loop worked on
\* updated = json.loads(json.dumps(self.state)), a deep copy.
LoopOnLiveState(st, updated) == updated
StateAfterLoop(st, updated) == st

\* apply_delta(deltas, dry_run) up to the end of its loop; a dry run returns.
ApplyDelta(deltas, dry) ==
  /\ \/ /\ pc = "idle"
        /\ preview' = NoRet
     \/ \* the caller applies the batch it has just previewed
        /\ pc = "returned"
        /\ ret.status = "ok" /\ ret.dry /\ ret.deltas = deltas
        /\ ~dry
        /\ preview' = ret
  /\ pre' = [state |-> state, disk |-> disk, tmp |-> tmp,
             backups |-> backups, backupDir |-> backupDir]
  /\ seen' = NoRead
  /\ LET r == ApplyLoop(state, << >>, deltas, 1, dry)
     IN IF r.raised
        THEN /\ ret' = [status |-> "error", err |-> r.err, deltas |-> deltas, dry |-> dry]
             /\ pc' = "returned"
             /\ UNCHANGED call
             /\ UNCHANGED state
        ELSE IF dry
        THEN /\ state' = StateAfterLoop(state, r.updated)
             /\ ret' = [status |-> "ok", deltas |-> deltas, dry |-> TRUE,
                        state |-> state', changes |-> r.changes, applied |-> FALSE]
             /\ pc' = "returned"
             /\ UNCHANGED call
        ELSE /\ state' = StateAfterLoop(state, r.updated)
             /\ ret' = NoRet
             /\ pc' = "backup"
             /\ call' = [running |-> TRUE, deltas |-> deltas,
                         updated |-> r.updated, changes |-> r.changes]
  /\ UNCHANGED <<disk, tmp, backupDir, backups, now>>
  /\ UNCHANGED parseVars

\* An exception leaves apply_delta.
Raise(e) ==
  /\ ret' = Failure(e)
  /\ pc' = "returned"
  /\ call' = NoCall
  /\ seen' = NoRead

\* create_backup() left out: apply_delta goes straight on to _save_state.
CreateBackupSkipped ==
  /\ pc = "backup"
  /\ pc' = "save"
  /\ UNCHANGED <<disk, tmp, backupDir, backups, now, state, call, pre, ret, preview, seen>>
  /\ UNCHANGED parseVars

\* create_backup()
CreateBackup ==
  /\ pc = "backup"
  /\ \/ \* mkdir fails
        /\ ~backupDir
        /\ Raise("OSError")
        /\ UNCHANGED <<backupDir, backups>>
     \/ \* copy2 of a file that does not exist
        /\ disk.kind = "absent"
        /\ backupDir' = TRUE
        /\ Raise("FileNotFoundError")
        /\ UNCHANGED backups
     \/ \* the copy is made; a backup of the same second is overwritten
        /\ disk.kind # "absent"
        /\ backupDir' = TRUE
        /\ backups' = Put(backups, now, disk)
        /\ pc' = "save"
        /\ UNCHANGED <<call, ret, seen>>
     \/ \* copy2 fails, before or while it writes
        /\ disk.kind # "absent"
        /\ backupDir' = TRUE
        /\ UNCHANGED backups
        /\ Raise("OSError")
  /\ UNCHANGED <<disk, tmp, now, state, pre, preview>>
  /\ UNCHANGED parseVars

\* _save_state opening the backing file itself for writing, not a temp file.
SaveOpenTarget ==
  /\ pc = "save"
  /\ Has(call.updated, "metadata")
  /\ call' = [call EXCEPT !.updated =
                 Put(@, "metadata", Put(@.metadata, "last_updated", now))]
  /\ disk' = FilePartial
  /\ pc' = "write"
  /\ UNCHANGED <<tmp, backupDir, backups, now, state, pre, ret, preview, seen>>
  /\ UNCHANGED parseVars

\* The stamp replaces the metadata object instead of setting one field of it.
SaveOpenTempNewMetadata ==
  /\ pc = "save"
  /\ IF ~Has(call.updated, "metadata")
     THEN /\ Raise("ValueError")
          /\ UNCHANGED tmp
     ELSE \/ /\ call' = [call EXCEPT !.updated =
                            Put(@, "metadata", [last_updated |-> now])]
             /\ tmp' = FilePartial
             /\ pc' = "write"
             /\ UNCHANGED <<ret, seen>>
          \/ /\ Raise("ValueError")
             /\ UNCHANGED tmp
  /\ UNCHANGED <<disk, backupDir, backups, now, state, pre, preview>>
  /\ UNCHANGED parseVars

\* _save_state: stamp last_updated, open the temp file for writing
SaveOpenTemp ==
  /\ pc = "save"
  /\ IF ~Has(call.updated, "metadata")
     THEN /\ Raise("ValueError")
          /\ UNCHANGED tmp
     ELSE \/ /\ call' = [call EXCEPT !.updated =
                            Put(@, "metadata", Put(@.metadata, "last_updated", now))]
             /\ tmp' = FilePartial
             /\ pc' = "write"
             /\ UNCHANGED <<ret, seen>>
          \/ /\ Raise("ValueError")
             /\ UNCHANGED tmp
  /\ UNCHANGED <<disk, backupDir, backups, now, state, pre, preview>>
  /\ UNCHANGED parseVars

\* _save_state: json.dump into the temp file
SaveWriteTemp ==
  /\ pc = "write"
  /\ \/ /\ tmp' = FileJson(call.updated)
        /\ pc' = "rename"
        /\ UNCHANGED <<call, ret, seen>>
     \/ /\ Raise("ValueError")
        /\ UNCHANGED tmp
  /\ UNCHANGED <<disk, backupDir, backups, now, state, pre, preview>>
  /\ UNCHANGED parseVars

\* self.state = updated done before the rename is known to have succeeded.
SaveRenameSwapFirst ==
  /\ pc = "rename"
  /\ state' = call.updated
  /\ \/ /\ disk' = tmp
        /\ tmp' = FileAbsent
        /\ pc' = "swap"
        /\ UNCHANGED <<call, ret, seen>>
     \/ /\ Raise("ValueError")
        /\ UNCHANGED <<disk, tmp>>
  /\ UNCHANGED <<backupDir, backups, now, pre, preview>>
  /\ UNCHANGED parseVars

\* _save_state: temp_file.replace(self.state_file)
SaveRename ==
  /\ pc = "rename"
  /\ \/ /\ disk' = tmp
        /\ tmp' = FileAbsent
        /\ pc' = "swap"
        /\ UNCHANGED <<call, ret, seen>>
     \/ /\ Raise("ValueError")
        /\ UNCHANGED <<disk, tmp>>
  /\ UNCHANGED <<backupDir, backups, now, state, pre, preview>>
  /\ UNCHANGED parseVars

\* The call returns the new document but self.state keeps the old one.
ReturnWithoutSwap ==
  /\ pc = "swap"
  /\ ret' = [status |-> "ok", deltas |-> call.deltas, dry |-> FALSE,
             state |-> call.updated, changes |-> call.changes, applied |-> TRUE]
  /\ pc' = "returned"
  /\ call' = NoCall
  /\ seen' = NoRead
  /\ UNCHANGED <<disk, tmp, backupDir, backups, now, state, pre, preview>>
  /\ UNCHANGED parseVars

\* self.state = updated; return
SwapAndReturn ==
  /\ pc = "swap"
  /\ state' = call.updated
  /\ ret' = [status |-> "ok", deltas |-> call.deltas, dry |-> FALSE,
             state |-> call.updated, changes |-> call.changes, applied |-> TRUE]
  /\ pc' = "returned"
  /\ call' = NoCall
  /\ seen' = NoRead
  /\ UNCHANGED <<disk, tmp, backupDir, backups, now, pre, preview>>
  /\ UNCHANGED parseVars

\* The caller is done with what the call returned or raised.
Forget ==
  /\ pc = "returned"
  /\ pc' = "idle"
  /\ ret' = NoRet
  /\ preview' = NoRet
  /\ pre' = NoPre
  /\ UNCHANGED <<disk, tmp, backupDir, backups, now, state, call, seen>>
  /\ UNCHANGED parseVars

\* Another user of the same path reads the backing file while a call runs.
ReaderRead ==
  /\ pc \in {"backup", "save", "write", "rename", "swap"}
  /\ seen' = disk
  /\ UNCHANGED <<disk, tmp, backupDir, backups, now, state, pc, call, pre, ret, preview>>
  /\ UNCHANGED parseVars

\* ------------------------------------------------------ parse_state_delta
UpperCase == <<"A", "B", "C", "D", "E", "F", "G", "H", "I", "J", "K", "L", "M", "N", "O", "P", "Q", "R", "S", "T", "U", "V", "W", "X", "Y", "Z">>
LowerCase == <<"a", "b", "c", "d", "e", "f", "g", "h", "i", "j", "k", "l", "m", "n", "o", "p", "q", "r", "s", "t", "u", "v", "w", "x", "y", "z">>

UpperSet == {UpperCase[i] : i \in 1..Len(UpperCase)}
LowerSet == {LowerCase[i] : i \in 1..Len(LowerCase)}
DigitSet == {Digits[i] : i \in 1..Len(Digits)}
IsUpper(c) == c \in UpperSet
IsLower(c) == c \in LowerSet
IsDigit(c) == c \in DigitSet
\* \s
IsSpace(c) == c \in {" ", "\t", "\n"}
\* [a-zA-Z0-9_\-]
IsEntityChar(c) == IsUpper(c) \/ IsLower(c) \/ IsDigit(c) \/ c \in {"_", "-"}
\* [a-zA-Z0-9_\.\-]
IsKeyChar(c) == IsEntityChar(c) \/ c = "."

\* str.lower()
LowerOf == [c \in UpperSet |-> LowerCase[CHOOSE i \in 1..Len(UpperCase) : UpperCase[i] = c]]
LowerChar(c) == IF IsUpper(c) THEN LowerOf[c] ELSE c
Lower(s) == [i \in 1..Len(s) |-> LowerChar(s[i])]

DigitValueOf == [c \in DigitSet |-> (CHOOSE i \in 1..Len(Digits) : Digits[i] = c) - 1]
DigitValue(c) == DigitValueOf[c]

\* The first index from i on whose character is not white space, not a
\* digit, ... (Len(s) + 1 when there is none): how far a greedy \s*, \d+,
\* [...]+ reaches.
RECURSIVE SkipSpaces(_, _)
SkipSpaces(s, i) == IF i <= Len(s) /\ IsSpace(s[i]) THEN SkipSpaces(s, i + 1) ELSE i
RECURSIVE SkipDigits(_, _)
SkipDigits(s, i) == IF i <= Len(s) /\ IsDigit(s[i]) THEN SkipDigits(s, i + 1) ELSE i
RECURSIVE SkipEntity(_, _)
SkipEntity(s, i) == IF i <= Len(s) /\ IsEntityChar(s[i]) THEN SkipEntity(s, i + 1) ELSE i
RECURSIVE SkipKey(_, _)
SkipKey(s, i) == IF i <= Len(s) /\ IsKeyChar(s[i]) THEN SkipKey(s, i + 1) ELSE i

CharAt(s, i, c) == i <= Len(s) /\ s[i] = c

\* A literal of a re.IGNORECASE pattern at position i of s.
LiteralAt(s, i, lit) ==
  /\ i >= 1
  /\ i + Len(lit) - 1 <= Len(s)
  /\ Lower(SubSeq(s, i, i + Len(lit) - 1)) = Lower(lit)

STATE_DELTA == <<"S", "T", "A", "T", "E", "-", "D", "E", "L", "T", "A">>
END_STATE_DELTA == <<"E", "N", "D", " ", "S", "T", "A", "T", "E", "-", "D", "E", "L", "T", "A">>

\* delta_block_pattern.search(text):
\*   STATE-DELTA\s*(?P<body>.*?)\s*END STATE-DELTA   (IGNORECASE, DOTALL)
\* The leftmost STATE-DELTA that an END STATE-DELTA follows; the body runs
\* from the first non-space character after it to the last non-space
\* character before the first END STATE-DELTA.
BlockStarts(t) ==
  {i \in 1..Len(t) :
     /\ LiteralAt(t, i, STATE_DELTA)
     /\ \E j \in (i + Len(STATE_DELTA))..Len(t) : LiteralAt(t, j, END_STATE_DELTA)}
Least(S) == CHOOSE x \in S : \A y \in S : x <= y
RECURSIVE TrimEnd(_, _, _)
\* the least p in a..j such that t[p..j-1] is white space
TrimEnd(t, a, j) == IF j > a /\ IsSpace(t[j - 1]) THEN TrimEnd(t, a, j - 1) ELSE j
BlockBody(t) ==
  LET i == Least(BlockStarts(t))
      a == SkipSpaces(t, i + Len(STATE_DELTA))
      j == Least({k \in a..Len(t) : LiteralAt(t, k, END_STATE_DELTA)})
      p == TrimEnd(t, a, j)
  IN SubSeq(t, a, p - 1)

\* body.splitlines()
RECURSIVE SplitLines(_, _, _)
SplitLines(s, i, cur) ==
  IF i > Len(s) THEN (IF cur = << >> THEN << >> ELSE <<cur>>)
  ELSE IF s[i] = "\n" THEN <<cur>> \o SplitLines(s, i + 1, << >>)
  ELSE SplitLines(s, i + 1, Append(cur, s[i]))

\* delta_line_pattern.match(line):
\*   ^\s*-\s*(?P<entity>[a-zA-Z0-9_\-]+)\s*:\s*(?P<key>[a-zA-Z0-9_\.\-]+)\s*-\=\s*(?P<amount>\d+)\s*$
\* [matched |-> FALSE] or the three groups.
NoMatch == [matched |-> FALSE]
MatchLine(line) ==
  LET dash == SkipSpaces(line, 1) IN
  IF ~CharAt(line, dash, "-") THEN NoMatch ELSE
  LET e0 == SkipSpaces(line, dash + 1)
      e1 == SkipEntity(line, e0)
      colon == SkipSpaces(line, e1)
  IN
  IF e1 = e0 \/ ~CharAt(line, colon, ":") THEN NoMatch ELSE
  LET k0 == SkipSpaces(line, colon + 1)
      k1 == SkipKey(line, k0)
      \* the key's run is greedy; it gives back a final "-" when "=" follows it
      tight == k1 - 1 > k0 /\ line[k1 - 1] = "-" /\ CharAt(line, k1, "=")
      kend == IF tight THEN k1 - 1 ELSE k1
      op == IF tight THEN k1 - 1 ELSE SkipSpaces(line, k1)
  IN
  IF kend = k0 \/ ~CharAt(line, op, "-") \/ ~CharAt(line, op + 1, "=") THEN NoMatch ELSE
  LET a0 == SkipSpaces(line, op + 2)
      a1 == SkipDigits(line, a0)
  IN
  IF a1 = a0 \/ SkipSpaces(line, a1) # Len(line) + 1 THEN NoMatch ELSE
  [matched |-> TRUE,
   entity |-> SubSeq(line, e0, e1 - 1),
   key |-> SubSeq(line, k0, kend - 1),
   amount |-> SubSeq(line, a0, a1 - 1)]

\* int(s) of a string of digits
RECURSIVE IntOfDigits(_)
IntOfDigits(s) ==
  IF s = << >> THEN 0
  ELSE 10 * IntOfDigits(SubSeq(s, 1, Len(s) - 1)) + DigitValue(s[Len(s)])

\* int(s) accepts an optional sign and digits, single underscores between
\* digits allowed; anything else raises ValueError.
StripUnderscores(s) == SelectSeq(s, LAMBDA c : c # "_")
IsDigitsWithUnderscores(s) ==
  /\ s # << >>
  /\ \A i \in 1..Len(s) : IsDigit(s[i]) \/ s[i] = "_"
  /\ IsDigit(s[1]) /\ IsDigit(s[Len(s)])
  /\ \A i \in 1..(Len(s) - 1) : ~(s[i] = "_" /\ s[i + 1] = "_")
IsPyInt(s) ==
  IF s # << >> /\ s[1] \in {"-", "+"}
  THEN IsDigitsWithUnderscores(Tail(s))
  ELSE IsDigitsWithUnderscores(s)
PyInt(s) ==
  IF s[1] = "-" THEN 0 - IntOfDigits(StripUnderscores(Tail(s)))
  ELSE IF s[1] = "+" THEN IntOfDigits(StripUnderscores(Tail(s)))
  ELSE IntOfDigits(StripUnderscores(s))

\* key.split(".", 1)[1]
AfterFirstDot(key) ==
  LET d == Least({i \in 1..Len(key) : key[i] = "."}) IN SubSeq(key, d + 1, Len(key))

\* The later line replaces the amount of an earlier one instead of adding.
AccumulateKeepLast(deltas, e, r, l, a) ==
  IF \E i \in 1..Len(deltas) : DeltaKey(deltas[i]) = <<e, r, l>>
  THEN [i \in 1..Len(deltas) |->
          IF DeltaKey(deltas[i]) = <<e, r, l>>
          THEN [deltas[i] EXCEPT !.amount = a] ELSE deltas[i]]
  ELSE Append(deltas, Delta(e, r, l, a))

\* deltas[resource_key] = deltas.get(resource_key, 0) + amount
Accumulate(deltas, e, r, l, a) ==
  IF \E i \in 1..Len(deltas) : DeltaKey(deltas[i]) = <<e, r, l>>
  THEN [i \in 1..Len(deltas) |->
          IF DeltaKey(deltas[i]) = <<e, r, l>>
          THEN [deltas[i] EXCEPT !.amount = @ + a] ELSE deltas[i]]
  ELSE Append(deltas, Delta(e, r, l, a))

\* The key not lower-cased before it is interpreted.
ParseLineKeepCase(deltas, rawLine) ==
  LET m == MatchLine(rawLine) IN
  IF ~m.matched THEN [raised |-> FALSE, deltas |-> deltas]
  ELSE
    LET key == m.key
        amount == IntOfDigits(m.amount)
    IN
    IF StartsWith(key, SPELL_SLOT_DOT)
    THEN IF IsPyInt(AfterFirstDot(key))
         THEN [raised |-> FALSE,
               deltas |-> Accumulate(deltas, m.entity, SPELL_SLOT,
                                     PyInt(AfterFirstDot(key)), amount)]
         ELSE Raised("ValueError")
    ELSE [raised |-> FALSE, deltas |-> Accumulate(deltas, m.entity, key, 0, amount)]

\* One line of the body.
ParseLine(deltas, rawLine) ==
  LET m == MatchLine(rawLine) IN
  IF ~m.matched THEN [raised |-> FALSE, deltas |-> deltas]
  ELSE
    LET key == Lower(m.key)
        amount == IntOfDigits(m.amount)
    IN
    IF StartsWith(key, SPELL_SLOT_DOT)
    THEN IF IsPyInt(AfterFirstDot(key))
         THEN [raised |-> FALSE,
               deltas |-> Accumulate(deltas, m.entity, SPELL_SLOT,
                                     PyInt(AfterFirstDot(key)), amount)]
         ELSE Raised("ValueError")
    ELSE [raised |-> FALSE, deltas |-> Accumulate(deltas, m.entity, key, 0, amount)]

\* for line in body.splitlines(): ...
RECURSIVE ParseLines(_, _, _)
ParseLines(deltas, lines, i) ==
  IF i > Len(lines) THEN [raised |-> FALSE, deltas |-> deltas]
  ELSE LET r == ParseLine(deltas, lines[i])
       IN IF r.raised THEN r ELSE ParseLines(r.deltas, lines, i + 1)

\* parse_state_delta(text)
ParseStateDelta(t) ==
  IF BlockStarts(t) = {} THEN [raised |-> FALSE, deltas |-> << >>]
  ELSE ParseLines(<< >>, SplitLines(BlockBody(t), 1, << >>), 1)


\* The texts handed to the parser: an opening marker or none, up to MaxLines
\* lines, a closing marker or none, one per line.
LineKi == <<"-", " ", "e", "1", ":", " ", "k", "i", " ", "-", "=", " ", "2">>
LineKiUpper == <<"-", " ", "e", "1", ":", " ", "K", "I", " ", "-", "=", " ", "1">>
LineSlot == <<"-", " ", "e", "1", ":", " ", "s", "p", "e", "l", "l", "_", "s", "l", "o", "t", ".", "2", " ", "-", "=", " ", "1">>
LineSlotMixed == <<"-", " ", "E", "1", ":", " ", "S", "p", "e", "l", "l", "_", "S", "l", "o", "t", ".", "0", "2", " ", "-", "=", " ", "1">>
LineSlotBadLevel == <<"-", " ", "e", "1", ":", " ", "s", "p", "e", "l", "l", "_", "s", "l", "o", "t", ".", "x", " ", "-", "=", " ", "1">>
LineSlotNoLevel == <<"-", " ", "e", "1", ":", " ", "s", "p", "e", "l", "l", "_", "s", "l", "o", "t", ".", " ", "-", "=", " ", "1">>
LineNoDash == <<"e", "1", ":", " ", "k", "i", " ", "-", "=", " ", "1">>
LineBlank == <<" ", " ">>
LinePlus == <<"-", " ", "e", "1", ":", " ", "k", "i", " ", "+", "=", " ", "1">>
LineTight == <<" ", "-", "e", "1", ":", "k", "i", "-", "=", "0", "3", " ">>
LineSlotBare == <<"-", " ", "e", "1", ":", " ", "s", "p", "e", "l", "l", "_", "s", "l", "o", "t", " ", "-", "=", " ", "1">>
MarkStartLower == <<"s", "t", "a", "t", "e", "-", "d", "e", "l", "t", "a">>
MarkEndMixed == <<"E", "n", "d", " ", "S", "t", "a", "t", "e", "-", "D", "e", "l", "t", "a">>

TextLines ==
  {LineKi, LineKiUpper, LineSlot, LineSlotMixed, LineSlotBadLevel, LineSlotNoLevel,
   LineNoDash, LineBlank, LinePlus, LineTight, LineSlotBare}
OpeningMarks == {<< >>, STATE_DELTA, MarkStartLower, END_STATE_DELTA}
ClosingMarks == {<< >>, END_STATE_DELTA, MarkEndMixed}

RECURSIVE JoinLines(_)
JoinLines(ls) ==
  IF ls = << >> THEN << >>
  ELSE IF Len(ls) = 1 THEN ls[1]
  ELSE ls[1] \o <<"\n">> \o JoinLines(Tail(ls))

Texts ==
  {JoinLines(<<open>> \o body \o <<close>>) :
     open \in OpeningMarks, close \in ClosingMarks,
     body \in UNION {[1..n -> TextLines] : n \in 0..MaxLines}}

\* parse_state_delta(text) is called.
Parse ==
  /\ parsed = NoRet
  /\ parsed' = LET r == ParseStateDelta(text)
               IN IF r.raised THEN [status |-> "error", err |-> r.err]
                  ELSE [status |-> "ok", deltas |-> r.deltas]
  /\ UNCHANGED <<text, query, cache, svc, batch>>
  /\ UNCHANGED storeVars

ParseInit ==
  /\ text \in Texts
  /\ parsed = NoRet
  /\ query = NoQuery
  /\ cache = EmptyMap
  /\ svc = NoService
  /\ batch = NoBatch
  /\ disk = FileAbsent
  /\ tmp = FileAbsent
  /\ backupDir = FALSE
  /\ backups = EmptyMap
  /\ now = 0
  /\ state = NoState
  /\ pc = "new"
  /\ call = NoCall
  /\ pre = NoPre
  /\ ret = NoRet
  /\ preview = NoRet
  /\ seen = NoRead

ParseNext == Parse

SpecParse == ParseInit /\ [][ParseNext]_vars

StoreInit ==
  /\ disk \in InitialFiles
  /\ tmp = FileAbsent
  /\ backupDir = FALSE
  /\ backups = EmptyMap
  /\ now = 0
  /\ state = NoState
  /\ pc = "new"
  /\ call = NoCall
  /\ pre = NoPre
  /\ ret = NoRet
  /\ preview = NoRet
  /\ seen = NoRead

Init ==
  /\ StoreInit
  /\ text = << >>
  /\ parsed = NoRet
  /\ query = NoQuery
  /\ cache = EmptyMap
  /\ svc = NoService
  /\ batch = NoBatch

Next ==
  \/ Construct
  \/ Tick
  \/ \E deltas \in Batches, dry \in BOOLEAN : ApplyDelta(deltas, dry)
  \/ CreateBackup
  \/ SaveOpenTemp
  \/ SaveWriteTemp
  \/ SaveRename
  \/ SwapAndReturn
  \/ Forget
  \/ ReaderRead

Spec == Init /\ [][Next]_vars

\* ------------------------------------------------- reading a resource back
\* get_entity_resources(entity_id), on a document that has "entities" and
\* whose entities are objects
GetEntityResources(st, e) ==
  IF ~Has(st.entities, e) THEN EmptyMap
  ELSE Get(st.entities[e], "resources", EmptyMap)

\* check_resource_availability: the value it compares with the amount
Available(st, e, rtype, level) ==
  LET resources == GetEntityResources(st, e) IN
  IF IsLeveled(rtype)
  THEN Get(Get(resources, SPELL_SLOTS, EmptyMap), Str(level), 0)
  ELSE Get(resources, rtype, 0)

\* ------------------------------------------------ the store's read-only calls
\* The order in which a document's entities are iterated: the order of the
\* file, new entities after the old ones.
EntityOrder == <<E1, E2>>

\* get_entity_resources(entity_id) on any document the store may hold.
TryGetEntityResources(st, e) ==
  IF ~Has(st, "entities") THEN Raised("KeyError")
  ELSE IF ~Has(st.entities, e) THEN [raised |-> FALSE, value |-> EmptyMap]
  ELSE IF ~IsDict(st.entities[e]) THEN Raised("AttributeError")
  ELSE [raised |-> FALSE, value |-> Get(st.entities[e], "resources", EmptyMap)]

\* available >= amount, with available read from the resources map
EnoughIn(resources, rtype, level, amount) ==
  IF IsLeveled(rtype)
  THEN Get(Get(resources, SPELL_SLOTS, EmptyMap), Str(level), 0) >= amount
  ELSE Get(resources, rtype, 0) >= amount

\* check_resource_availability(entity_id, resource_type, amount, level)
CheckResourceAvailability(st, e, rtype, amount, level) ==
  LET r == TryGetEntityResources(st, e) IN
  IF r.raised THEN r
  ELSE [raised |-> FALSE, value |-> EnoughIn(r.value, rtype, level, amount)]

MISSING_KEY == <<"M", "i", "s", "s", "i", "n", "g", " ", "r", "e", "q", "u", "i", "r", "e", "d", " ", "k", "e", "y", ":", " ">>
ENTITY_SP == <<"E", "n", "t", "i", "t", "y", " ">>
NOT_A_DICT == <<" ", "i", "s", " ", "n", "o", "t", " ", "a", " ", "d", "i", "c", "t">>
MISSING_RESOURCES == <<" ", "m", "i", "s", "s", "i", "n", "g", " ", "r", "e", "s", "o", "u", "r", "c", "e", "s">>
MISSING_VERSION == <<"M", "e", "t", "a", "d", "a", "t", "a", " ", "m", "i", "s", "s", "i", "n", "g", " ", "v", "e", "r", "s", "i", "o", "n">>
MISSING_LAST_UPDATED == <<"M", "e", "t", "a", "d", "a", "t", "a", " ", "m", "i", "s", "s", "i", "n", "g", " ", "l", "a", "s", "t", "_", "u", "p", "d", "a", "t", "e", "d">>
RequiredKeys == <<"entities", "resources", "metadata">>
KeyText ==
  [entities |-> <<"e", "n", "t", "i", "t", "i", "e", "s">>,
   resources |-> <<"r", "e", "s", "o", "u", "r", "c", "e", "s">>,
   metadata |-> <<"m", "e", "t", "a", "d", "a", "t", "a">>]

\* for key in required_keys: if key not in state: issues.append(...)
RECURSIVE MissingKeyIssues(_, _)
MissingKeyIssues(doc, i) ==
  IF i > Len(RequiredKeys) THEN << >>
  ELSE (IF Has(doc, RequiredKeys[i]) THEN << >>
        ELSE << MISSING_KEY \o KeyText[RequiredKeys[i]] >>)
       \o MissingKeyIssues(doc, i + 1)

\* for entity_id, entity in state["entities"].items(): ...
RECURSIVE EntityIssues(_, _)
EntityIssues(entities, i) ==
  IF i > Len(EntityOrder) THEN << >>
  ELSE LET e == EntityOrder[i] IN
       (IF ~Has(entities, e) THEN << >>
        ELSE IF ~IsDict(entities[e]) THEN << ENTITY_SP \o e \o NOT_A_DICT >>
        ELSE IF ~Has(entities[e], "resources") THEN << ENTITY_SP \o e \o MISSING_RESOURCES >>
        ELSE << >>)
       \o EntityIssues(entities, i + 1)

\* the two checks on state["metadata"]
MetadataIssues(metadata) ==
  (IF Has(metadata, "version") THEN << >> ELSE << MISSING_VERSION >>)
  \o (IF Has(metadata, "last_updated") THEN << >> ELSE << MISSING_LAST_UPDATED >>)

\* validate_state(state): (is_valid, issues), or the exception it raises.
\* "entities", where a document has it, is an object; "metadata" may be null,
\* and then '"version" not in state["metadata"]' raises TypeError.
ValidateState(doc) ==
  IF Has(doc, "metadata") /\ ~IsDict(doc.metadata) THEN Raised("TypeError")
  ELSE LET issues ==
             MissingKeyIssues(doc, 1)
             \o (IF Has(doc, "entities") THEN EntityIssues(doc.entities, 1) ELSE << >>)
             \o (IF Has(doc, "metadata") THEN MetadataIssues(doc.metadata) ELSE << >>)
       IN [raised |-> FALSE, valid |-> Len(issues) = 0, issues |-> issues]

\* Documents handed to validate_state as its argument.
DocNullMetadata ==
  [entities |-> EmptyMap, resources |-> EmptyMap, metadata |-> NotADict]
ValidateArguments == {DocNoMetadata, DocBadEntity, DocNullMetadata}

\* What the read-only calls are asked.
QueryEntities == {E1, E2}
QueryResources == {<<KI, 0>>, <<SPELL_SLOT, 2>>}
QueryAmounts == {0, 1, 6}

\* The read-only calls are made between two calls of apply_delta.
CanQuery == pc = "idle" /\ query = NoQuery

\* manager.get_entity_resources(entity_id)
GetEntityResourcesCall(e) ==
  /\ CanQuery
  /\ query' = [op |-> "get_entity_resources", entity |-> e,
               out |-> TryGetEntityResources(state, e)]
  /\ UNCHANGED <<text, parsed, cache, svc, batch>>
  /\ UNCHANGED storeVars

\* manager.check_resource_availability(entity_id, resource_type, amount, level)
CheckResourceAvailabilityCall(e, rtype, amount, level) ==
  /\ CanQuery
  /\ query' = [op |-> "check_resource_availability", entity |-> e, rtype |-> rtype,
               amount |-> amount, level |-> level,
               out |-> CheckResourceAvailability(state, e, rtype, amount, level)]
  /\ UNCHANGED <<text, parsed, cache, svc, batch>>
  /\ UNCHANGED storeVars

\* manager.validate_state(): state is None, so self.state is validated
ValidateStateCall ==
  /\ CanQuery
  /\ query' = [op |-> "validate_state", doc |-> state, out |-> ValidateState(state)]
  /\ UNCHANGED <<text, parsed, cache, svc, batch>>
  /\ UNCHANGED storeVars

\* manager.validate_state(doc)
ValidateDocumentCall(doc) ==
  /\ CanQuery
  /\ query' = [op |-> "validate_state", doc |-> doc, out |-> ValidateState(doc)]
  /\ UNCHANGED <<text, parsed, cache, svc, batch>>
  /\ UNCHANGED storeVars

\* The caller has used the result.
QueryReturn ==
  /\ query # NoQuery
  /\ query' = NoQuery
  /\ UNCHANGED <<text, parsed, cache, svc, batch>>
  /\ UNCHANGED storeVars

\* The store's own steps, taken while no read-only call is being answered.
StoreStep ==
  /\ query = NoQuery
  /\ \/ Construct
     \/ \E deltas \in Batches, dry \in BOOLEAN : ApplyDelta(deltas, dry)
     \/ CreateBackup
     \/ SaveOpenTemp
     \/ SaveWriteTemp
     \/ SaveRename
     \/ SwapAndReturn
     \/ Forget

QueryNext ==
  \/ StoreStep
  \/ \E e \in QueryEntities : GetEntityResourcesCall(e)
  \/ \E e \in QueryEntities, r \in QueryResources, amount \in QueryAmounts :
        CheckResourceAvailabilityCall(e, r[1], amount, r[2])
  \/ ValidateStateCall
  \/ \E doc \in ValidateArguments : ValidateDocumentCall(doc)
  \/ QueryReturn

SpecQuery == Init /\ [][QueryNext]_vars

\* ------------------------------------------------------ ServiceOrchestrator
MaxIds == 2        \* ids in one batch_lookup_entities call
MaxWorkers == 5    \* ThreadPoolExecutor(max_workers=5)

ENTITY == <<"e", "n", "t", "i", "t", "y">>
VM == <<"v", "m">>
VM_DB == <<"v", "m", "_", "d", "b">>
ID_1 == <<"1">>
ID_DB_1 == <<"d", "b", "_", "1">>
EntityTypes == {ENTITY, VM, VM_DB}
EntityIds == {ID_1, ID_DB_1}

\* f"{entity_type}_{entity_id}"
CacheKey(entityType, entityId) == entityType \o <<"_">> \o entityId
\* f"entity_{entity_id}"
StatusKey(entityId) == ENTITY \o <<"_">> \o entityId

\* entity_data = {"id": ..., "type": ..., "status": "active", "metadata": {}}
EntityData(entityId, entityType) ==
  [id |-> entityId, type |-> entityType, status |-> "active", metadata |-> EmptyMap]

\* self.cache.pop(key, None)
Pop(f, k) == [x \in (DOMAIN f) \ {k} |-> f[x]]

\* What is remembered of a finished call for the next one.
Summary(c) == IF c.op = "update_entity_status" THEN [op |-> c.op, id |-> c.id]
              ELSE [op |-> c.op]

ServiceIdle == ~batch.running

\* orchestrator.get_entity_data(entity_id, entity_type), on the main thread
GetEntityData(entityId, entityType) ==
  /\ ServiceIdle
  /\ LET key == CacheKey(entityType, entityId) IN
     IF Has(cache, key)
     THEN /\ svc' = [op |-> "get_entity_data", id |-> entityId, type |-> entityType,
                     hit |-> TRUE, result |-> cache[key], prev |-> Summary(svc)]
          /\ UNCHANGED cache
     ELSE /\ cache' = Put(cache, key, EntityData(entityId, entityType))
          /\ svc' = [op |-> "get_entity_data", id |-> entityId, type |-> entityType,
                     hit |-> FALSE, result |-> EntityData(entityId, entityType),
                     prev |-> Summary(svc)]
  /\ UNCHANGED <<text, parsed, query, batch>>
  /\ UNCHANGED storeVars

\* orchestrator.update_entity_status(entity_id, new_status)
UpdateEntityStatus(entityId) ==
  /\ ServiceIdle
  /\ cache' = Pop(cache, StatusKey(entityId))
  /\ svc' = [op |-> "update_entity_status", id |-> entityId, result |-> TRUE,
             prev |-> Summary(svc)]
  /\ UNCHANGED <<text, parsed, query, batch>>
  /\ UNCHANGED storeVars

\* batch_lookup_entities(entity_ids, entity_type): every id is submitted to
\* the pool as a get_entity_data task.
BatchSubmit(ids, entityType) ==
  /\ ServiceIdle
  /\ batch' = [running |-> TRUE, ids |-> ids, type |-> entityType,
               task |-> [i \in 1..Len(ids) |-> "queued"],
               results |-> << >>]
  /\ svc' = NoService
  /\ UNCHANGED <<text, parsed, query, cache>>
  /\ UNCHANGED storeVars

Running(i) == batch.task[i] \in {"hit", "miss"}

\* A pool thread takes task i and evaluates 'cache_key in self.cache'.
TaskCheck(i) ==
  /\ batch.running
  /\ i \in DOMAIN batch.task
  /\ batch.task[i] = "queued"
  /\ Cardinality({j \in DOMAIN batch.task : Running(j)}) < MaxWorkers
  /\ batch' = [batch EXCEPT !.task[i] =
                 IF Has(cache, CacheKey(batch.type, batch.ids[i])) THEN "hit" ELSE "miss"]
  /\ UNCHANGED <<text, parsed, query, cache, svc>>
  /\ UNCHANGED storeVars

\* Task i returns self.cache[cache_key]; its future completes and the main
\* thread's as_completed loop appends the result.
TaskReturnCached(i) ==
  /\ batch.running
  /\ i \in DOMAIN batch.task
  /\ batch.task[i] = "hit"
  /\ batch' = [batch EXCEPT !.task[i] = "done",
                            !.results = Append(@, cache[CacheKey(batch.type, batch.ids[i])])]
  /\ UNCHANGED <<text, parsed, query, cache, svc>>
  /\ UNCHANGED storeVars

\* Task i builds the record, stores it in the cache and returns it.
TaskStore(i) ==
  /\ batch.running
  /\ i \in DOMAIN batch.task
  /\ batch.task[i] = "miss"
  /\ cache' = Put(cache, CacheKey(batch.type, batch.ids[i]),
                  EntityData(batch.ids[i], batch.type))
  /\ batch' = [batch EXCEPT !.task[i] = "done",
                            !.results = Append(@, EntityData(batch.ids[i], batch.type))]
  /\ UNCHANGED <<text, parsed, query, svc>>
  /\ UNCHANGED storeVars

\* Every future has completed: the pool shuts down and the call returns.
BatchReturn ==
  /\ batch.running
  /\ \A i \in DOMAIN batch.task : batch.task[i] = "done"
  /\ svc' = [op |-> "batch_lookup_entities", ids |-> batch.ids, type |-> batch.type,
             result |-> batch.results, prev |-> [op |-> "none"]]
  /\ batch' = NoBatch
  /\ UNCHANGED <<text, parsed, query, cache>>
  /\ UNCHANGED storeVars

IdLists == UNION {[1..n -> EntityIds] : n \in 0..MaxIds}

ServiceNext ==
  \/ \E id \in EntityIds, t \in EntityTypes : GetEntityData(id, t)
  \/ \E id \in EntityIds : UpdateEntityStatus(id)
  \/ \E ids \in IdLists, t \in EntityTypes : BatchSubmit(ids, t)
  \/ \E i \in 1..(MaxIds + 1) : TaskCheck(i)
  \/ \E i \in 1..(MaxIds + 1) : TaskReturnCached(i)
  \/ \E i \in 1..(MaxIds + 1) : TaskStore(i)
  \/ BatchReturn

\* A new orchestrator: __init__ sets self.cache = {}.  No store is in use.
ServiceInit ==
  /\ cache = EmptyMap
  /\ svc = NoService
  /\ batch = NoBatch
  /\ text = << >>
  /\ parsed = NoRet
  /\ query = NoQuery
  /\ disk = FileAbsent
  /\ tmp = FileAbsent
  /\ backupDir = FALSE
  /\ backups = EmptyMap
  /\ now = 0
  /\ state = NoState
  /\ pc = "new"
  /\ call = NoCall
  /\ pre = NoPre
  /\ ret = NoRet
  /\ preview = NoRet
  /\ seen = NoRead

SpecService == ServiceInit /\ [][ServiceNext]_vars

\* ----------------------------------------------------------------- claims
Returned == pc = "returned"
AppliedOk == Returned /\ ret.status = "ok" /\ ret.applied
DryOk == Returned /\ ret.status = "ok" /\ ret.dry
RealFailed == Returned /\ ret.status = "error" /\ ~ret.dry
InCall == pc \in {"backup", "save", "write", "rename", "swap"}

\* Two entries of a batch subtract from the same stored value.
SameTarget(d1, d2) ==
  /\ d1.entity = d2.entity
  /\ \/ IsLeveled(d1.rtype) /\ IsLeveled(d2.rtype) /\ d1.level = d2.level
     \/ ~IsLeveled(d1.rtype) /\ ~IsLeveled(d2.rtype) /\ d1.rtype = d2.rtype
RECURSIVE TargetTotal(_, _, _)
TargetTotal(deltas, d, i) ==
  IF i > Len(deltas) THEN 0
  ELSE (IF SameTarget(deltas[i], d) THEN deltas[i].amount ELSE 0)
       + TargetTotal(deltas, d, i + 1)

\* C1: a real-mode apply_delta is all-or-nothing.  When the backup step or
\* the save step (stamp, temp write, rename) fails, the call ends with the
\* error raised to the caller, and self.state and the content of the backing
\* file are what they were when the call began; while the call has not yet
\* saved, self.state is still the state the call found, and self.state
\* differs from it only once the backing file holds the new document.
C1_AllOrNothing ==
  /\ RealFailed => state = pre.state /\ disk = pre.disk
  /\ pc \in {"backup", "save", "write", "rename"} => state = pre.state
  /\ (pre # NoPre /\ state # pre.state) => disk = FileJson(state)

\* A save failed at the rename: the complete new document sits in the temp
\* file, it differs from what the store holds, and the caller got the error.
C1_Witness ==
  /\ RealFailed
  /\ ret.err = "ValueError"
  /\ tmp.kind = "json"
  /\ tmp.doc.entities # state.entities
  /\ disk = FileJson(state)

\* C2: a dry-run apply_delta leaves the backing file, the temp file, the
\* backup directory and self.state as it found them, reports applied =
\* False and returns self.state itself.
C2_DryRunChangesNothing ==
  (Returned /\ ret.dry) =>
     /\ state = pre.state
     /\ disk = pre.disk
     /\ tmp = pre.tmp
     /\ backups = pre.backups
     /\ backupDir = pre.backupDir
     /\ ret.status = "ok" => (~ret.applied /\ ret.state = state)

\* A dry run of a two-entry batch on a store whose e1 has ki = 5 and a
\* level-2 spell slot reported two changes.
C2_Witness ==
  /\ DryOk
  /\ Len(ret.changes) = 2
  /\ ret.deltas[1] = Delta(E1, SPELL_SLOT, 2, 1)
  /\ Available(state, E1, KI, 0) = 5
  /\ Available(state, E1, SPELL_SLOT, 2) = 1

\* C3: after a real apply_delta that succeeded, every value a delta of the
\* batch targets is stored, is not negative, and equals
\* max(0, current - amount): current is the value before the call (0 when
\* absent) and amount the sum of the batch's amounts for that value.
C3_ClampedSubtraction ==
  AppliedOk =>
    \A i \in 1..Len(ret.deltas) :
      LET d     == ret.deltas[i]
          res   == state.entities[d.entity].resources
          cur   == Available(pre.state, d.entity, d.rtype, d.level)
          total == TargetTotal(ret.deltas, d, 1)
          new   == Available(state, d.entity, d.rtype, d.level)
      IN /\ IF IsLeveled(d.rtype)
            THEN Has(res, SPELL_SLOTS) /\ Has(res[SPELL_SLOTS], Str(d.level))
            ELSE Has(res, d.rtype)
         /\ new >= 0
         /\ new = (IF cur - total > 0 THEN cur - total ELSE 0)

\* ki = 2 minus 3 was clamped to 0.
C3_Witness ==
  /\ AppliedOk
  /\ ret.deltas[1] = Delta(E1, KI, 0, 3)
  /\ Available(pre.state, E1, KI, 0) = 2
  /\ Available(state, E1, KI, 0) = 0

\* C4: a real apply_delta first copies the backing file to a backup, then
\* persists the updated document, then replaces self.state.  Once the call
\* is past the backup step a backup holds the content the call found in the
\* file; the file is rewritten only after that; self.state is
\* replaced only after the file holds the new document.
C4_BackupThenSaveThenSwap ==
  /\ (pc \in {"save", "write", "rename", "swap"} \/ AppliedOk
        \/ (pre # NoPre /\ disk # pre.disk)) =>
        \E ts \in DOMAIN backups : backups[ts] = pre.disk
  /\ pc \in {"backup", "save", "write", "rename"} =>
        disk = pre.disk /\ state = pre.state
  /\ pc = "swap" => disk = FileJson(call.updated) /\ state = pre.state
  /\ AppliedOk => disk = FileJson(state)

\* The file has been rewritten, self.state not yet replaced, and the backup
\* of this call holds the old content.
C4_Witness ==
  /\ pc = "swap"
  /\ disk # pre.disk
  /\ backups[now] = pre.disk
  /\ state # call.updated

\* C5: whatever a reader of the backing file reads while the single writer
\* saves is the complete old document or the complete new one, and the
\* file's content changes only at the rename.
C5_ReaderSeesOldOrNew ==
  /\ InCall => disk.kind # "partial"
  /\ pc \in {"save", "write", "rename", "swap"} => disk.kind = "json"
  /\ (InCall /\ seen # NoRead) =>
        seen = pre.disk \/ (pc = "swap" /\ seen = FileJson(call.updated))
  /\ pc \in {"save", "write", "rename"} => disk = pre.disk

\* The reader read the complete old document while the temp file was only
\* partly written.
C5_Witness ==
  /\ pc = "write"
  /\ tmp.kind = "partial"
  /\ seen = pre.disk
  /\ seen.kind = "json"

\* Strip the "DRY-RUN: " marker of a change description.
StripMarker(note) ==
  IF StartsWith(note, DRY_RUN_MARK)
  THEN SubSeq(note, Len(DRY_RUN_MARK) + 1, Len(note)) ELSE note
\* A real call that succeeded right after a dry run of the same batch.
PreviewedAndApplied == AppliedOk /\ preview # NoRet

\* C6 as stated: the real call's change descriptions are the dry run's
\* without the "DRY-RUN" marker.
C6_SameDescriptions ==
  PreviewedAndApplied =>
    ret.changes = [i \in 1..Len(preview.changes) |-> StripMarker(preview.changes[i])]

\* C6 amended: when every entity the batch names exists and no two entries
\* target the same stored value, the dry run's i-th description is the real
\* call's i-th description with "DRY-RUN: " before it and
\* " (subtract <amount>)" after it.
C6_SameDescriptionsAmended ==
  (/\ PreviewedAndApplied
   /\ \A i \in 1..Len(ret.deltas) : Has(pre.state.entities, ret.deltas[i].entity)
   /\ \A i, j \in 1..Len(ret.deltas) : i # j => ~SameTarget(ret.deltas[i], ret.deltas[j])) =>
    /\ Len(preview.changes) = Len(ret.changes)
    /\ \A i \in 1..Len(ret.changes) :
         preview.changes[i] =
           DRY_RUN_MARK \o ret.changes[i] \o SUBTRACT \o Str(ret.deltas[i].amount) \o <<")">>

\* A two-entry batch on existing entities was previewed, then applied; one
\* of its subtractions was clamped.
C6_Witness ==
  /\ PreviewedAndApplied
  /\ Len(ret.deltas) = 2
  /\ \A i \in 1..2 : Has(pre.state.entities, ret.deltas[i].entity)
  /\ ~SameTarget(ret.deltas[1], ret.deltas[2])
  /\ Available(pre.state, E2, KI, 0) < 10
  /\ ret.deltas[2] = Delta(E2, KI, 0, 10)

\* C7 as stated: on a store constructed with the backing file absent (the
\* empty document), the real apply_delta of {(e1, "ki", 0): 3} succeeds
\* when no I/O fault hits it: e1 has ki = 0, the document is persisted and
\* a backup file exists.
C7_EmptyStoreScenario ==
  (/\ Returned
   /\ ~ret.dry
   /\ ret.deltas = <<Delta(E1, KI, 0, 3)>>
   /\ pre.disk = FileAbsent
   /\ pre.state.entities = EmptyMap
   /\ ~(ret.status = "error" /\ ret.err = "OSError")) =>
     /\ ret.status = "ok"
     /\ Available(state, E1, KI, 0) = 0
     /\ disk = FileJson(state)
     /\ DOMAIN backups # {}

\* C8 as stated: after a successful save the persisted document and
\* self.state both have metadata.version and metadata.last_updated.
HasVersionAndLastUpdated(doc) ==
  /\ Has(doc, "metadata")
  /\ Has(doc.metadata, "version")
  /\ Has(doc.metadata, "last_updated")
C8_MetadataAfterSave ==
  AppliedOk =>
    /\ disk.kind = "json"
    /\ HasVersionAndLastUpdated(disk.doc)
    /\ HasVersionAndLastUpdated(state)

\* C9 as stated: parse_state_delta never raises.
C9_ParserNeverRaises == parsed.status # "error"

\* The delta key a matching line maps to: the key lower-cased; with the
\* prefix "spell_slot." the type is "spell_slot" and the level the integer
\* after the dot, otherwise the type is the whole key and the level 0.
LineKeyOf(m) ==
  IF StartsWith(Lower(m.key), SPELL_SLOT_DOT)
  THEN <<m.entity, SPELL_SLOT, PyInt(AfterFirstDot(Lower(m.key)))>>
  ELSE <<m.entity, Lower(m.key), 0>>
BodyLines(t) == SplitLines(BlockBody(t), 1, << >>)
ExampleText == JoinLines(<<STATE_DELTA, LineSlot, END_STATE_DELTA>>)
NoBlockText == JoinLines(<<STATE_DELTA, LineKi, << >> >>)

\* C10: when the parser returns, the keys of the batch are exactly the keys
\* the matching lines of the block map to (lower-cased key; "spell_slot."
\* prefix gives type "spell_slot" and the parsed level, anything else the
\* whole key and level 0), each once; the line "- e1: spell_slot.2 -= 1"
\* gives (e1, "spell_slot", 2) -> 1; a text without a block gives the empty
\* batch.
C10_KeyMapping ==
  parsed.status = "ok" =>
    /\ BlockStarts(text) = {} => parsed.deltas = << >>
    /\ BlockStarts(text) # {} =>
         {DeltaKey(parsed.deltas[i]) : i \in 1..Len(parsed.deltas)} =
         {LineKeyOf(MatchLine(BodyLines(text)[i])) :
            i \in {k \in 1..Len(BodyLines(text)) : MatchLine(BodyLines(text)[k]).matched}}
    /\ \A i, j \in 1..Len(parsed.deltas) :
         i # j => DeltaKey(parsed.deltas[i]) # DeltaKey(parsed.deltas[j])
    /\ text = ExampleText => parsed.deltas = <<Delta(E1, SPELL_SLOT, 2, 1)>>
    /\ text = NoBlockText => parsed.deltas = << >>

\* A block with an upper-case key and a mixed-case leveled key was parsed.
C10_Witness ==
  /\ parsed.status = "ok"
  /\ text = JoinLines(<<MarkStartLower, LineKiUpper, LineSlotMixed, MarkEndMixed>>)
  /\ parsed.deltas = <<Delta(E1, KI, 0, 1), Delta(<<"E", "1">>, SPELL_SLOT, 2, 1)>>

\* The sum of the amounts of the matching lines, from the i-th on, that map
\* to the delta key k.
RECURSIVE LineTotal(_, _, _)
LineTotal(lines, k, i) ==
  IF i > Len(lines) THEN 0
  ELSE LET m == MatchLine(lines[i]) IN
       (IF m.matched /\ LineKeyOf(m) = k THEN IntOfDigits(m.amount) ELSE 0)
       + LineTotal(lines, k, i + 1)
TwiceKiText == JoinLines(<<STATE_DELTA, LineKi, LineKi, END_STATE_DELTA>>)

\* C11: when the parser returns, the amount of each key of the batch is the
\* sum of the amounts of all matching lines of the block that map to that
\* key, and every key of the batch has a line that maps to it; the line
\* "- e1: ki -= 2" twice gives (e1, "ki", 0) -> 4.
C11_AmountsAreSums ==
  (parsed.status = "ok" /\ BlockStarts(text) # {}) =>
    /\ \A i \in 1..Len(parsed.deltas) :
         /\ parsed.deltas[i].amount =
              LineTotal(BodyLines(text), DeltaKey(parsed.deltas[i]), 1)
         /\ \E k \in 1..Len(BodyLines(text)) :
              /\ MatchLine(BodyLines(text)[k]).matched
              /\ LineKeyOf(MatchLine(BodyLines(text)[k])) = DeltaKey(parsed.deltas[i])
    /\ text = TwiceKiText => parsed.deltas = <<Delta(E1, KI, 0, 4)>>

\* Two lines with different amounts and differently cased keys were summed
\* under one key.
C11_Witness ==
  /\ parsed.status = "ok"
  /\ text = JoinLines(<<STATE_DELTA, LineKiUpper, LineTight, END_STATE_DELTA>>)
  /\ parsed.deltas = <<Delta(E1, KI, 0, 4)>>

\* The top-level structure of a state document.
HasDocumentShape(doc) ==
  Has(doc, "entities") /\ Has(doc, "resources") /\ Has(doc, "metadata")

\* C12 as stated: construction fails with a load error whenever the backing
\* file exists and is not a state document, so a constructed store never
\* holds a document without the entities/resources/metadata structure.
C12_LoadRejectsWrongShape ==
  /\ (pc = "idle" /\ pre = NoPre) =>
        (disk.kind # "absent" => disk.kind = "json" /\ HasDocumentShape(disk.doc))
  /\ state # NoState => HasDocumentShape(state)

\* C13 as stated: in every state the store reaches, get_entity_resources
\* does not fail, and gives the entity's resources map when the entity
\* exists and an empty map when it does not.
C13_GetEntityResourcesNeverFails ==
  query.op = "get_entity_resources" =>
    /\ ~query.out.raised
    /\ query.out.value =
         (IF Has(state.entities, query.entity)
          THEN Get(state.entities[query.entity], "resources", EmptyMap)
          ELSE EmptyMap)

\* The value the store holds for a resource, an absent entity or resource
\* counting as 0.
ValueOrZero(st, e, rtype, level) ==
  IF ~Has(st, "entities") THEN 0
  ELSE IF ~Has(st.entities, e) THEN 0
  ELSE IF ~IsDict(st.entities[e]) THEN 0
  ELSE LET resources == Get(st.entities[e], "resources", EmptyMap) IN
       IF IsLeveled(rtype)
       THEN Get(Get(resources, SPELL_SLOTS, EmptyMap), Str(level), 0)
       ELSE Get(resources, rtype, 0)

\* C14 as stated: check_resource_availability returns, and returns true
\* exactly when the value the store holds for the resource, 0 when the
\* entity or the resource is absent, is at least the amount.
C14_AvailabilityIsComparison ==
  query.op = "check_resource_availability" =>
    /\ ~query.out.raised
    /\ query.out.value =
         (ValueOrZero(state, query.entity, query.rtype, query.level) >= query.amount)

\* C15 as stated: validate_state does not raise on any document; isValid is
\* true exactly when the issues list is empty, and a document without
\* "metadata" gets the issue "Missing required key: metadata".
C15_ValidateNeverRaises ==
  query.op = "validate_state" =>
    /\ ~query.out.raised
    /\ query.out.valid <=> (query.out.issues = << >>)
    /\ ~Has(query.doc, "metadata") =>
         (~query.out.valid /\
          \E i \in 1..Len(query.out.issues) :
             query.out.issues[i] = MISSING_KEY \o KeyText["metadata"])

\* C18: once the store is constructed and whenever no apply_delta is
\* running (after a dry run, a real run that succeeded, a real run that
\* failed), the backing file, if it exists, holds exactly self.state,
\* metadata.last_updated included.
C18_DiskEqualsMemory ==
  (pc \in {"idle", "returned"} /\ disk.kind # "absent") => disk = FileJson(state)

\* A real run succeeded and stamped a later last_updated than the store
\* held before; file and memory both have it.
C18_Witness ==
  /\ AppliedOk
  /\ Has(pre.state.metadata, "last_updated")
  /\ pre.state.metadata.last_updated = 0
  /\ state.metadata.last_updated = 1
  /\ disk.doc.metadata.last_updated = 1

\* The document passes validate_state.
IsValid(doc) == ~ValidateState(doc).raised /\ ValidateState(doc).valid

\* C19: no step of the store takes a self.state that passes validate_state
\* to one that does not, whatever apply_delta call (dry or real, succeeding
\* or failing) the step belongs to; the empty document of an absent file
\* passes; and every entity a step adds to self.state has a resources map.
C19_ValidityPreserved ==
  [][/\ (state = NoState /\ disk = FileAbsent /\ state' # NoState) => IsValid(state')
     /\ (state # NoState /\ IsValid(state)) => IsValid(state')
     /\ (state # NoState /\ state' # state) =>
          \A e \in DOMAIN state'.entities :
             ~Has(state.entities, e) =>
                IsDict(state'.entities[e]) /\ Has(state'.entities[e], "resources")]_vars

\* A real run on a valid store created entity e2, with a resources map, and
\* the store is still valid.
C19_Witness ==
  /\ AppliedOk
  /\ IsValid(pre.state)
  /\ ~Has(pre.state.entities, E2)
  /\ Has(state.entities, E2)
  /\ Has(state.entities[E2], "resources")
  /\ IsValid(state)

\* C16 as stated: after update_entity_status(entity_id) the cache has no
\* entry for that entity under any entity type, and a get_entity_data of
\* that entity made next is a fresh lookup, not a cached record.
C16_UpdateInvalidates ==
  /\ svc.op = "update_entity_status" =>
        \A t \in EntityTypes : ~Has(cache, CacheKey(t, svc.id))
  /\ (svc.op = "get_entity_data" /\ svc.prev.op = "update_entity_status"
        /\ svc.prev.id = svc.id) => ~svc.hit

\* C17 as stated: when batch_lookup_entities returns, it gives one result
\* per requested id, each the entity record of a requested id (with the
\* requested type), and the cache has an entry for every requested id.
C17_BatchOneRecordPerId ==
  svc.op = "batch_lookup_entities" =>
    /\ Len(svc.result) = Len(svc.ids)
    /\ \A k \in 1..Len(svc.result) :
         /\ \E i \in 1..Len(svc.ids) : svc.result[k].id = svc.ids[i]
         /\ svc.result[k].type = svc.type
    /\ \A i \in 1..Len(svc.ids) : Has(cache, CacheKey(svc.type, svc.ids[i]))

====
